---- MODULE Spec2Model ----
(***************************************************************************)
(* Model of src/webhook_deployer.py: the /webhook handler, the signature   *)
(* verifier, the directory-listing port allocator and the pull/up          *)
(* deployment protocol.                                                    *)
(*                                                                         *)
(* Strings are sequences of one-character strings, so that strip(),        *)
(* count("/"), split("/", 1) and sorted() are computed as Python computes  *)
(* them.  Paths are sequences of names relative to DEPLOY_ROOT.            *)
(***************************************************************************)
EXTENDS Integers, Sequences, FiniteSets, TLC

(* ---------------------------------------------------------------- bounds *)
MaxServed == 3
MaxProbes == 2
MaxRepos == 1001
\* requests received by the server when requests overlap
MaxOverlap == 2

(* ------------------------------------------------------------ characters *)
Digits == {"0", "1", "2", "3", "4", "5", "6", "7", "8", "9"}
Letters == {"a", "b", "x", "y"}
Whitespace == {" "}

\* Unicode code points, the order sorted() compares strings by
Ord(c) ==
    CASE c = " " -> 32
      [] c = "!" -> 33
      [] c = "-" -> 45
      [] c = "." -> 46
      [] c = "/" -> 47
      [] c = "0" -> 48
      [] c = "1" -> 49
      [] c = "2" -> 50
      [] c = "3" -> 51
      [] c = "4" -> 52
      [] c = "5" -> 53
      [] c = "6" -> 54
      [] c = "7" -> 55
      [] c = "8" -> 56
      [] c = "9" -> 57
      [] c = "_" -> 95
      [] c = "a" -> 97
      [] c = "b" -> 98
      [] c = "x" -> 120
      [] c = "y" -> 121

\* str.isalnum() on one character
isalnum(c) == c \in Digits \cup Letters

\* str.strip(): drop leading and trailing whitespace
RECURSIVE lstrip(_)
lstrip(s) ==
    IF s # <<>> /\ Head(s) \in Whitespace THEN lstrip(Tail(s)) ELSE s

RECURSIVE rstrip(_)
rstrip(s) ==
    IF s # <<>> /\ s[Len(s)] \in Whitespace
    THEN rstrip(SubSeq(s, 1, Len(s) - 1))
    ELSE s

strip(s) == rstrip(lstrip(s))

\* str.count(c) for a one-character c
count(s, c) == Cardinality({i \in 1..Len(s) : s[i] = c})

\* position of the first "/" in s (0 when there is none)
find(s, c) ==
    IF \E i \in 1..Len(s) : s[i] = c
    THEN CHOOSE i \in 1..Len(s) : s[i] = c /\ \A j \in 1..(i - 1) : s[j] # c
    ELSE 0

\* full_repo.split("/", 1) of a string holding at least one "/"
split(s) ==
    LET i == find(s, "/")
    IN  <<SubSeq(s, 1, i - 1), SubSeq(s, i + 1, Len(s))>>

\* Python's str "<": lexicographic by code point, a proper prefix is smaller
RECURSIVE StrLess(_, _)
StrLess(s, t) ==
    IF t = <<>> THEN FALSE
    ELSE IF s = <<>> THEN TRUE
    ELSE IF Head(s) = Head(t) THEN StrLess(Tail(s), Tail(t))
    ELSE Ord(Head(s)) < Ord(Head(t))

\* sorted(names).index(x) for an x among the names: directory names are
\* distinct, so the zero-based position of x in the sorted list is the number
\* of names that sort before it
sorted_index(names, x) == Cardinality({n \in names : StrLess(n, x)})

\* len(sorted(names))
sorted_len(names) == Cardinality(names)

(* ------------------------------------------------------------ filesystem *)
\* DEPLOY_ROOT, as a path relative to itself
DEPLOY_ROOT == <<>>

\* pathlib's "/" operator: an empty component adds nothing to the path
PathJoin(p, name) == IF name = <<>> THEN p ELSE Append(p, name)

\* [d.name for d in p.iterdir() if d.is_dir()]
iterdir(ds, p) ==
    {d[Len(d)] : d \in {e \in ds : Len(e) = Len(p) + 1
                                   /\ SubSeq(e, 1, Len(p)) = p}}

\* Path.mkdir(parents=True, exist_ok=True)
mkdir(ds, p) == ds \cup {SubSeq(p, 1, n) : n \in 0..Len(p)}

(* -------------------------------------------------------- port allocator *)
get_port_for_repo(ds, owner, repo_name) ==
    LET owners == iterdir(ds, DEPLOY_ROOT)
        owner_index == IF owner \in owners THEN sorted_index(owners, owner)
                       ELSE sorted_len(owners)
        base_port == 2000 + owner_index * 1000
        owner_path == PathJoin(DEPLOY_ROOT, owner)
        repos == IF owner_path \in ds THEN iterdir(ds, owner_path) ELSE {}
        repo_index == IF repo_name \in repos THEN sorted_index(repos, repo_name)
                      ELSE sorted_len(repos)
    IN  base_port + repo_index + 1

(* ---------------------------------------------------- signature verifier *)
\* "sha256=" + hmac.new(key, payload, sha256).hexdigest(), with the MAC taken
\* as collision free: equal strings come only from equal key and payload
hexdigest(key, payload) == [kind |-> "mac", key |-> key, payload |-> payload]

\* hmac.compare_digest(a, b) on two str: TypeError when one of them holds a
\* non-ASCII character
compare_digest(expected, sig_header) ==
    IF sig_header.kind = "nonascii" THEN "TypeError"
    ELSE IF expected = sig_header THEN "True" ELSE "False"

\* (variant) the test for a configured secret is left out
verify_signature_any_secret(secret, payload, sig_header) ==
    IF sig_header.kind \in {"none", "empty"} THEN "False"
    ELSE compare_digest(hexdigest(secret, payload), sig_header)

verify_signature(secret, payload, sig_header) ==
    IF secret = "" \/ sig_header.kind \in {"none", "empty"} THEN "False"
    ELSE compare_digest(hexdigest(secret, payload), sig_header)

(* ------------------------------------------------------ payload and tags *)
\* a JSON value of the payload object
Str(s) == [type |-> "str", val |-> s]
Absent == [type |-> "absent", val |-> <<>>]
Number == [type |-> "number", val |-> <<>>]

\* data.get(key, "").strip(): AttributeError when the value is not a string
get_strip(field) ==
    IF field.type = "absent" THEN [exc |-> FALSE, val |-> strip(<<>>)]
    ELSE IF field.type = "str" THEN [exc |-> FALSE, val |-> strip(field.val)]
    ELSE [exc |-> TRUE, val |-> <<>>]

\* (variant) at least one "/" instead of exactly one
repo_format_ok_some_slash(full_repo) ==
    /\ full_repo # <<>>
    /\ count(full_repo, "/") >= 1
    /\ \A i \in 1..Len(full_repo) :
          isalnum(full_repo[i]) \/ full_repo[i] \in {"-", "_", ".", "/"}

\* the repository grammar of the handler
repo_format_ok(full_repo) ==
    /\ full_repo # <<>>
    /\ count(full_repo, "/") = 1
    /\ \A i \in 1..Len(full_repo) :
          isalnum(full_repo[i]) \/ full_repo[i] \in {"-", "_", ".", "/"}

\* DEPLOY_ROOT / owner / repo_name
repo_path(full_repo) ==
    LET parts == split(full_repo)
    IN  PathJoin(PathJoin(DEPLOY_ROOT, parts[1]), parts[2])

(* ------------------------------------------------------------ descriptor *)
\* the rendered docker-compose.yml: the template is fixed, so the text is
\* determined by the image reference and the external port
compose_content(full_repo, tag, external_port) ==
    [mode |-> "template", image |-> <<full_repo, tag>>, port |-> external_port,
     raw |-> <<>>]

ensure_compose_file(ds, full_repo, tag) ==
    LET parts == split(full_repo)
    IN  compose_content(full_repo, tag, get_port_for_repo(ds, parts[1], parts[2]))

(* ------------------------------------------------------------- responses *)
NoResp ==
    [status |-> 0, kind |-> "none", error |-> "", keys |-> {},
     stdout |-> "", stderr |-> "", repo |-> <<>>, tag |-> <<>>, port |-> 0]

\* abort(status, description=...)
Abort(status, description) ==
    [NoResp EXCEPT !.status = status, !.kind = "abort", !.error = description]

\* an exception that leaves the view function: the framework answers 500
Unhandled == [NoResp EXCEPT !.status = 500, !.kind = "unhandled"]

\* jsonify({"error": ...}), 500
Error500(error, keys) ==
    [NoResp EXCEPT !.status = 500, !.kind = "json", !.error = error,
                   !.keys = {"error"} \cup keys]

\* jsonify({"error": ..., "stdout": ..., "stderr": ...}), 500
PhaseFailed(error, run) ==
    [Error500(error, {"stdout", "stderr"}) EXCEPT !.stdout = run.stdout,
                                                   !.stderr = run.stderr]

Success(full_repo, tag, port) ==
    [NoResp EXCEPT !.status = 200, !.kind = "json",
                   !.keys = {"status", "repo", "tag", "port", "message"},
                   !.repo = full_repo, !.tag = tag, !.port = port]

(* --------------------------------------------------------- external tool *)
NoRun == [kind |-> "none", returncode |-> 0, stdout |-> "", stderr |-> ""]

\* what subprocess.run(..., capture_output=True, timeout=120) can do
Outputs == {[stdout |-> "out1", stderr |-> "err1"],
            [stdout |-> "out2", stderr |-> "err2"]}
RunOutcomes ==
    {[kind |-> "exit", returncode |-> rc, stdout |-> o.stdout, stderr |-> o.stderr] :
        rc \in {0, 1}, o \in Outputs}
    \cup {[NoRun EXCEPT !.kind = "TimeoutExpired"],
          [NoRun EXCEPT !.kind = "OSError"]}

(* ---------------------------------------------------------------- inputs *)
Req == {"r1", "r2"}

Secrets == {"", "k"}

RepoInputs ==
    {Str(<<"a", "/", "x">>), Str(<<"a", "/", "y">>), Str(<<"b", "/", "x">>),
     Str(<<" ", "a", "/", "x">>), Str(<<"/", "a">>),
     Str(<<"a">>), Str(<<"a", "/", "x", "/", "y">>), Str(<<"a", "!", "/", "x">>),
     Absent, Number}
TagInputs == {Str(<<"1">>), Str(<<"2">>), Str(<<" ">>), Absent}

\* values of the compose_b64 key: four base64 characters, and a string that
\* is no base64 text
ComposeInputs == {Str(<<"a", "b", "x", "y">>), Str(<<"a", "!">>)}

NoBody == [kind |-> "none", repo |-> Absent, tag |-> Absent, compose_b64 |-> Absent]
Bodies ==
    {[NoBody EXCEPT !.kind = "malformed"], [NoBody EXCEPT !.kind = "empty"]}
    \cup {[kind |-> "object", repo |-> rp, tag |-> tg, compose_b64 |-> Absent] :
            rp \in RepoInputs, tg \in TagInputs}
    \cup {[kind |-> "object", repo |-> Str(<<"a", "/", "x">>), tag |-> Str(<<"1">>),
           compose_b64 |-> c] : c \in ComposeInputs}

\* a body other than b, as a signature over it would have been made for
Tampered(b) == IF b.kind = "malformed" THEN [NoBody EXCEPT !.kind = "empty"]
               ELSE [NoBody EXCEPT !.kind = "malformed"]

NoSig == [kind |-> "none", key |-> "", payload |-> NoBody]
SigHeaders(b) ==
    {NoSig, [NoSig EXCEPT !.kind = "empty"], [NoSig EXCEPT !.kind = "nonascii"],
     hexdigest("", b), hexdigest("k", b), hexdigest("k", Tampered(b))}

(* ----------------------------------------------------------------- state *)
VARIABLES
    WEBHOOK_SECRET,  \* the configured secret, read once at start
    dirs,            \* directories at and below DEPLOY_ROOT
    compose,         \* repo_path -> content of its docker-compose.yml
    req,             \* per request slot: position, inputs, locals, response
    served,          \* number of requests received so far
    prev,            \* history: the last request that passed validation
    anyFailed,       \* history: some validated request did not answer 200
    allocated,       \* ports handed out by direct calls of get_port_for_repo
    appendOnly       \* history: every directory made so far sorted last

vars == <<WEBHOOK_SECRET, dirs, compose, req, served, prev, anyFailed, allocated,
          appendOnly>>

Idle ==
    [pc |-> "Idle", sig |-> NoSig, body |-> NoBody, pre |-> {},
     full_repo |-> <<>>, tag |-> <<>>,
     mkdirDone |-> FALSE, wrote |-> FALSE, written |-> compose_content(<<>>, <<>>, 0),
     pull |-> NoRun, up |-> NoRun, ranOn |-> <<>>, steps |-> <<>>,
     overwritten |-> FALSE, nresp |-> 0, resp |-> NoResp]

NoPrev == [valid |-> FALSE, full_repo |-> <<>>, tag |-> <<>>, wrote |-> FALSE,
           created |-> FALSE,
           written |-> compose_content(<<>>, <<>>, 0)]

Init ==
    /\ WEBHOOK_SECRET \in Secrets
    /\ dirs = {DEPLOY_ROOT}
    /\ compose = <<>>
    /\ req = [r \in Req |-> Idle]
    /\ served = 0
    /\ prev = NoPrev
    /\ anyFailed = FALSE
    /\ allocated = {}
    /\ appendOnly = TRUE

\* the request performs a step of the handler and answers
Respond(r, step, response) ==
    req' = [req EXCEPT ![r].pc = "Responded", ![r].resp = response,
                       ![r].nresp = @ + 1, ![r].steps = Append(@, step)]

(* --------------------------------------------------------------- actions *)
\* a request arrives at POST /webhook
Receive(r) ==
    /\ req[r].pc = "Idle"
    /\ served < MaxServed
    /\ \E b \in Bodies : \E s \in SigHeaders(b) :
          req' = [req EXCEPT ![r] = [Idle EXCEPT !.pc = "Received", !.sig = s,
                                                 !.body = b, !.pre = dirs]]
    /\ served' = served + 1
    /\ UNCHANGED <<WEBHOOK_SECRET, dirs, compose, prev, anyFailed, allocated, appendOnly>>

\* (variant) a bad signature is noticed but the handler goes on
CheckSignature_no_abort(r) ==
    /\ req[r].pc = "Received"
    /\ req' = [req EXCEPT ![r].pc = "SignatureChecked",
                          ![r].steps = Append(@, "signature")]
    /\ UNCHANGED <<WEBHOOK_SECRET, dirs, compose, served, prev, anyFailed, allocated, appendOnly>>

\* signature validation
CheckSignature(r) ==
    /\ req[r].pc = "Received"
    /\ LET v == verify_signature(WEBHOOK_SECRET, req[r].body, req[r].sig)
       IN  CASE v = "True" -> req' = [req EXCEPT ![r].pc = "SignatureChecked",
                                               ![r].steps = Append(@, "signature")]
             [] v = "False" -> Respond(r, "signature", Abort(403, "Invalid signature"))
             [] v = "TypeError" -> Respond(r, "signature", Unhandled)
    /\ UNCHANGED <<WEBHOOK_SECRET, dirs, compose, served, prev, anyFailed, allocated, appendOnly>>

\* parsing and validation of the payload
ValidatePayload(r) ==
    /\ req[r].pc = "SignatureChecked"
    /\ LET b == req[r].body
           rp == get_strip(b.repo)
           tg == get_strip(b.tag)
           \* get_json() raising, abort(400, "Empty payload") and a .strip()
           \* on a non-string are all caught by the except clause
           caught == b.kind \in {"malformed", "empty"} \/ rp.exc \/ tg.exc
       IN  IF caught THEN Respond(r, "payload", Abort(400, "Invalid JSON"))
           ELSE IF ~repo_format_ok(rp.val)
                THEN Respond(r, "payload", Abort(400, "Invalid repo format"))
           ELSE IF tg.val = <<>>
                THEN Respond(r, "payload", Abort(400, "Tag is required"))
           ELSE req' = [req EXCEPT ![r].pc = "PayloadValidated",
                                   ![r].steps = Append(@, "payload"),
                                   ![r].full_repo = rp.val, ![r].tag = tg.val]
    /\ UNCHANGED <<WEBHOOK_SECRET, dirs, compose, served, prev, anyFailed, allocated, appendOnly>>

\* every directory that mkdir(ds, p) adds sorts after the directories that
\* are already beside it
SortsLast(ds, p) ==
    \A d \in mkdir(ds, p) \ ds :
        \A sibling \in iterdir(ds, SubSeq(d, 1, Len(d) - 1)) :
            StrLess(sibling, d[Len(d)])

\* repo_path.mkdir(parents=True, exist_ok=True)
EnsureDirectory(r) ==
    /\ req[r].pc = "PayloadValidated"
    /\ dirs' = mkdir(dirs, repo_path(req[r].full_repo))
    /\ req' = [req EXCEPT ![r].pc = "DirectoryEnsured", ![r].mkdirDone = TRUE,
                          ![r].steps = Append(@, "mkdir")]
    /\ appendOnly' = (appendOnly /\ SortsLast(dirs, repo_path(req[r].full_repo)))
    /\ UNCHANGED <<WEBHOOK_SECRET, compose, served, prev, anyFailed, allocated>>

\* compose_file.write_text(content): the writer goes on to the pull; a request
\* of the same repository that wrote earlier no longer has its content on disk
AfterWrite(r, content) ==
    [o \in Req |->
        IF o = r
        THEN [req[r] EXCEPT !.pc = "DescriptorReady", !.wrote = TRUE,
                            !.steps = Append(@, "descriptor"),
                            !.written = content]
        ELSE IF req[o].wrote /\ req[o].full_repo = req[r].full_repo
             THEN [req[o] EXCEPT !.overwritten = TRUE]
             ELSE req[o]]

\* (variant) the port is taken from the listing made before the mkdir
EnsureComposeFile_stale_listing(r) ==
    /\ req[r].pc = "DirectoryEnsured"
    /\ LET content == ensure_compose_file(req[r].pre, req[r].full_repo, req[r].tag)
       IN  /\ compose' = (repo_path(req[r].full_repo) :> content) @@ compose
           /\ req' = AfterWrite(r, content)
    /\ UNCHANGED <<WEBHOOK_SECRET, dirs, served, prev, anyFailed, allocated, appendOnly>>

\* (variant) the write waits while another request for the same repository
\* is between its own write and its answer
EnsureComposeFile_locked(r) ==
    /\ req[r].pc = "DirectoryEnsured"
    /\ \A o \in Req \ {r} :
          ~(req[o].pc \in {"DescriptorReady", "PullDone", "StartDone"}
            /\ req[o].full_repo = req[r].full_repo)
    /\ LET content == ensure_compose_file(dirs, req[r].full_repo, req[r].tag)
       IN  /\ compose' = (repo_path(req[r].full_repo) :> content) @@ compose
           /\ req' = AfterWrite(r, content)
    /\ UNCHANGED <<WEBHOOK_SECRET, dirs, served, prev, anyFailed, allocated, appendOnly>>

\* ensure_compose_file: allocate the port from the listing, render, write
EnsureComposeFile(r) ==
    /\ req[r].pc = "DirectoryEnsured"
    /\ LET content == ensure_compose_file(dirs, req[r].full_repo, req[r].tag)
       IN  /\ compose' = (repo_path(req[r].full_repo) :> content) @@ compose
           /\ req' = AfterWrite(r, content)
    /\ UNCHANGED <<WEBHOOK_SECRET, dirs, served, prev, anyFailed, allocated, appendOnly>>

\* the listing or the write raises (I/O failure): caught, answered 500
EnsureComposeFileFails(r) ==
    /\ req[r].pc = "DirectoryEnsured"
    /\ Respond(r, "descriptor", Error500("Compose file generation failed", {"details"}))
    /\ UNCHANGED <<WEBHOOK_SECRET, dirs, compose, served, prev, anyFailed, allocated, appendOnly>>

\* (variant) the exit status of the pull is not looked at
AfterRun_pull_unchecked(run, failed_error) ==
    CASE run.kind = "TimeoutExpired" -> Error500("Deployment timeout", {})
      [] run.kind = "OSError" -> Error500("Internal server error", {"details"})
      [] run.kind = "exit" /\ run.returncode # 0 /\ failed_error # "Pull failed" ->
            PhaseFailed(failed_error, run)
      [] OTHER -> NoResp

\* (variant) the exit status of the up is not looked at
AfterRun_up_unchecked(run, failed_error) ==
    CASE run.kind = "TimeoutExpired" -> Error500("Deployment timeout", {})
      [] run.kind = "OSError" -> Error500("Internal server error", {"details"})
      [] run.kind = "exit" /\ run.returncode # 0 /\ failed_error # "Deploy failed" ->
            PhaseFailed(failed_error, run)
      [] OTHER -> NoResp

\* (variant) the generic except clause comes first and takes the timeout too
AfterRun_timeout_generic(run, failed_error) ==
    CASE run.kind \in {"TimeoutExpired", "OSError"} ->
            Error500("Internal server error", {"details"})
      [] run.kind = "exit" /\ run.returncode # 0 -> PhaseFailed(failed_error, run)
      [] OTHER -> NoResp

\* the result of one subprocess.run inside the try block
AfterRun(run, failed_error) ==
    CASE run.kind = "TimeoutExpired" -> Error500("Deployment timeout", {})
      [] run.kind = "OSError" -> Error500("Internal server error", {"details"})
      [] run.kind = "exit" /\ run.returncode # 0 -> PhaseFailed(failed_error, run)
      [] OTHER -> NoResp

\* (variant) a pull that does not succeed takes the descriptor away again
Pull_rolls_back(r) ==
    /\ req[r].pc = "DescriptorReady"
    /\ \E run \in RunOutcomes :
          LET response == AfterRun(run, "Pull failed")
              path == repo_path(req[r].full_repo)
          IN  /\ req' = [req EXCEPT
                        ![r].pull = run,
                        ![r].ranOn = IF run.kind = "OSError" THEN @
                                     ELSE Append(@, [phase |-> "pull", on |-> compose[path]]),
                        ![r].steps = Append(@, "pull"),
                        ![r].nresp = IF response = NoResp THEN @ ELSE @ + 1,
                        ![r].pc = IF response = NoResp THEN "PullDone" ELSE "Responded",
                        ![r].resp = response]
              /\ compose' = IF response = NoResp THEN compose
                            ELSE [p \in DOMAIN compose \ {path} |-> compose[p]]
    /\ UNCHANGED <<WEBHOOK_SECRET, dirs, served, prev, anyFailed, allocated, appendOnly>>

\* docker compose -f <compose_file> pull
Pull(r) ==
    /\ req[r].pc = "DescriptorReady"
    /\ \E run \in RunOutcomes :
          LET response == AfterRun(run, "Pull failed")
          IN  req' = [req EXCEPT
                        ![r].pull = run,
                        ![r].ranOn = IF run.kind = "OSError" THEN @
                                     ELSE Append(@, [phase |-> "pull",
                                                     on |-> compose[repo_path(req[r].full_repo)]]),
                        ![r].steps = Append(@, "pull"),
                        ![r].nresp = IF response = NoResp THEN @ ELSE @ + 1,
                        ![r].pc = IF response = NoResp THEN "PullDone" ELSE "Responded",
                        ![r].resp = response]
    /\ UNCHANGED <<WEBHOOK_SECRET, dirs, compose, served, prev, anyFailed, allocated, appendOnly>>

\* docker compose -f <compose_file> up -d --remove-orphans
Up(r) ==
    /\ req[r].pc = "PullDone"
    /\ \E run \in RunOutcomes :
          LET response == AfterRun(run, "Deploy failed")
          IN  req' = [req EXCEPT
                        ![r].up = run,
                        ![r].ranOn = IF run.kind = "OSError" THEN @
                                     ELSE Append(@, [phase |-> "up",
                                                     on |-> compose[repo_path(req[r].full_repo)]]),
                        ![r].steps = Append(@, "up"),
                        ![r].nresp = IF response = NoResp THEN @ ELSE @ + 1,
                        ![r].pc = IF response = NoResp THEN "StartDone" ELSE "Responded",
                        ![r].resp = response]
    /\ UNCHANGED <<WEBHOOK_SECRET, dirs, compose, served, prev, anyFailed, allocated, appendOnly>>

\* the success response, with the port taken from a fresh listing
Succeed(r) ==
    /\ req[r].pc = "StartDone"
    /\ LET parts == split(req[r].full_repo)
       IN  Respond(r, "respond", Success(req[r].full_repo, req[r].tag,
                              get_port_for_repo(dirs, parts[1], parts[2])))
    /\ UNCHANGED <<WEBHOOK_SECRET, dirs, compose, served, prev, anyFailed, allocated, appendOnly>>

\* the request is over and its slot is free again
Recycle(r) ==
    /\ req[r].pc = "Responded"
    /\ req' = [req EXCEPT ![r] = Idle]
    /\ IF req[r].full_repo # <<>>
       THEN /\ prev' = [valid |-> TRUE, full_repo |-> req[r].full_repo,
                        tag |-> req[r].tag, wrote |-> req[r].wrote,
                        created |-> (req[r].mkdirDone
                                     /\ repo_path(req[r].full_repo) \notin req[r].pre),
                        written |-> req[r].written]
            /\ anyFailed' = (anyFailed \/ req[r].resp.status # 200)
       ELSE UNCHANGED <<prev, anyFailed>>
    /\ UNCHANGED <<WEBHOOK_SECRET, dirs, compose, served, allocated, appendOnly>>

Step(r) ==
    \/ CheckSignature(r)
    \/ ValidatePayload(r)
    \/ EnsureDirectory(r)
    \/ EnsureComposeFile(r)
    \/ EnsureComposeFileFails(r)
    \/ Pull(r)
    \/ Up(r)
    \/ Succeed(r)
    \/ Recycle(r)

\* requests are handled one after the other
ReceiveAlone(r) ==
    /\ \A o \in Req \ {r} : req[o].pc = "Idle"
    /\ Receive(r)

Next == \E r \in Req : ReceiveAlone(r) \/ Step(r)

Spec == Init /\ [][Next]_vars

(* ---------------------------------------------------- overlapping requests *)
GoodBody(rp, tg) ==
    [kind |-> "object", repo |-> Str(rp), tag |-> Str(tg), compose_b64 |-> Absent]

Signed(b) == [body |-> b, sig |-> hexdigest("k", b)]

\* deployments that overlap: two tags of one repository, and a repository
\* of an owner that sorts first
OverlapInputs ==
    {Signed(GoodBody(<<"b", "/", "x">>, <<"1">>)),
     Signed(GoodBody(<<"b", "/", "x">>, <<"2">>)),
     Signed(GoodBody(<<"a", "/", "x">>, <<"1">>))}

\* a deployment, a bad payload and a request without a signature
MixedInputs ==
    {Signed(GoodBody(<<"a", "/", "x">>, <<"1">>)),
     Signed(GoodBody(<<"a">>, <<"1">>)),
     [body |-> GoodBody(<<"a", "/", "x">>, <<"1">>), sig |-> NoSig]}

\* a request arrives while another may be in flight
ReceiveFrom(r, inputs) ==
    /\ req[r].pc = "Idle"
    /\ \E i \in inputs :
          req' = [req EXCEPT ![r] = [Idle EXCEPT !.pc = "Received", !.sig = i.sig,
                                                 !.body = i.body, !.pre = dirs]]
    /\ served' = served + 1
    /\ UNCHANGED <<WEBHOOK_SECRET, dirs, compose, prev, anyFailed, allocated, appendOnly>>

ReceiveOverlapping(r) ==
    /\ served < MaxOverlap
    /\ ReceiveFrom(r, OverlapInputs)

ReceiveMixed(r) ==
    /\ served < MaxOverlap
    /\ ReceiveFrom(r, MixedInputs)

ConcNext == \E r \in Req : ReceiveOverlapping(r) \/ Step(r)

ConcSpec == Init /\ [][ConcNext]_vars

MixedNext == \E r \in Req : ReceiveMixed(r) \/ Step(r)

\* every handler keeps running: each step returns, and subprocess.run exits
\* or times out
FairSpec == Init /\ [][MixedNext]_vars /\ \A r \in Req : WF_vars(Step(r))

(* ------------------------------------- the allocator on a fixed snapshot *)
\* the decimal digit k as a character
Chr(k) == CHOOSE c \in Digits : Ord(c) = 48 + k

\* the i-th of a run of repository names, in sorted order
Name(i) ==
    <<Chr(i \div 1000), Chr((i \div 100) % 10), Chr((i \div 10) % 10), Chr(i % 10)>>

\* DEPLOY_ROOT after na repositories were deployed for owner a, nb for owner b
Snapshot(na, nb) ==
    {DEPLOY_ROOT}
    \cup (IF na > 0 THEN {<<<<"a">>>>} ELSE {})
    \cup (IF nb > 0 THEN {<<<<"b">>>>} ELSE {})
    \cup {<<<<"a">>, Name(i)>> : i \in 0..(na - 1)}
    \cup {<<<<"b">>, Name(i)>> : i \in 0..(nb - 1)}

RepoCounts == {0, 1, 2, MaxRepos - 1, MaxRepos}
ProbeNames == {Name(i) : i \in {0, 1, MaxRepos - 2, MaxRepos - 1}}

PortInit ==
    /\ WEBHOOK_SECRET = "k"
    /\ \E na \in RepoCounts, nb \in RepoCounts : dirs = Snapshot(na, nb)
    /\ compose = <<>>
    /\ req = [r \in Req |-> Idle]
    /\ served = 0
    /\ prev = NoPrev
    /\ anyFailed = FALSE
    /\ allocated = {}
    /\ appendOnly = TRUE

\* get_port_for_repo(owner, repo_name) for a repository of the snapshot
Allocate ==
    /\ Cardinality(allocated) < MaxProbes
    /\ \E owner \in iterdir(dirs, DEPLOY_ROOT) :
       \E repo_name \in iterdir(dirs, <<owner>>) \cap ProbeNames :
          allocated' = allocated \cup
              {[owner |-> owner, repo_name |-> repo_name,
                port |-> get_port_for_repo(dirs, owner, repo_name)]}
    /\ UNCHANGED <<WEBHOOK_SECRET, dirs, compose, req, served, prev, anyFailed,
                   appendOnly>>

PortNext == Allocate

PortSpec == PortInit /\ [][PortNext]_vars

(* ================================================================ claims *)
Responded(r) == req[r].pc = "Responded"

\* the request did nothing beyond answering
NoSideEffects(r) ==
    /\ ~req[r].mkdirDone
    /\ ~req[r].wrote
    /\ req[r].pull = NoRun
    /\ req[r].up = NoRun
    /\ req[r].ranOn = <<>>

\* the presented signature is missing, empty, or not the HMAC of the body
\* under the configured secret
SignatureMismatch(r) ==
    \/ req[r].sig.kind \in {"none", "empty"}
    \/ req[r].sig # hexdigest(WEBHOOK_SECRET, req[r].body)

\* C1: every request whose signature is missing, empty or not the HMAC of
\* its body is answered 403 and does nothing else: no directory, no
\* descriptor, no pull, no up.
C1_AuthenticatedMutation ==
    \A r \in Req :
        (req[r].pc \notin {"Idle", "Received"} /\ SignatureMismatch(r)) =>
            /\ Responded(r)
            /\ req[r].resp.status = 403
            /\ NoSideEffects(r)

\* C2: once a sequence of non-overlapping requests has completed, all of
\* them successfully, no two descriptors on disk map the same external port.
C2_CollisionFree ==
    ((\A r \in Req : req[r].pc = "Idle") /\ ~anyFailed) =>
        \A p, q \in DOMAIN compose :
            p # q => compose[p].port # compose[q].port

\* C3: a pull that exits non-zero ends the request at once: up is never
\* invoked and the answer is 500 "Pull failed" with the pull's own stdout
\* and stderr.
C3_PullFailureShortCircuits ==
    \A r \in Req :
        (req[r].pull.kind = "exit" /\ req[r].pull.returncode # 0) =>
            /\ Responded(r)
            /\ req[r].up = NoRun
            /\ \A i \in 1..Len(req[r].ranOn) : req[r].ranOn[i].phase # "up"
            /\ req[r].resp.status = 500
            /\ req[r].resp.error = "Pull failed"
            /\ req[r].resp.keys = {"error", "stdout", "stderr"}
            /\ req[r].resp.stdout = req[r].pull.stdout
            /\ req[r].resp.stderr = req[r].pull.stderr

C3_Witness ==
    \E r \in Req :
        /\ Responded(r)
        /\ req[r].pull.kind = "exit"
        /\ req[r].pull.returncode = 1
        /\ req[r].pull.stdout = "out2"

\* a 200 answer comes only after pull exited 0 and then up exited 0
SuccessOnlyAfterBothPhases(r) ==
    /\ req[r].pull.kind = "exit" /\ req[r].pull.returncode = 0
    /\ req[r].up.kind = "exit" /\ req[r].up.returncode = 0
    /\ Len(req[r].ranOn) = 2
    /\ req[r].ranOn[1].phase = "pull"
    /\ req[r].ranOn[2].phase = "up"

\* C4 as stated: a 200 answer comes only after pull exited 0 and then up
\* exited 0, and it carries the repo and tag exactly as the request gave them.
C4_SuccessEchoesRequestUnchanged ==
    \A r \in Req :
        (Responded(r) /\ req[r].resp.status = 200) =>
            /\ SuccessOnlyAfterBothPhases(r)
            /\ req[r].resp.repo = req[r].body.repo.val
            /\ req[r].resp.tag = req[r].body.tag.val

\* C4 (amended): a 200 answer comes only after pull exited 0 and then up
\* exited 0, and it carries the request's repo and tag with the surrounding
\* whitespace stripped.
C4_SuccessEchoesStrippedRequest ==
    \A r \in Req :
        (Responded(r) /\ req[r].resp.status = 200) =>
            /\ SuccessOnlyAfterBothPhases(r)
            /\ req[r].resp.repo = strip(req[r].body.repo.val)
            /\ req[r].resp.tag = strip(req[r].body.tag.val)

C4_Witness ==
    \E r \in Req :
        /\ Responded(r)
        /\ req[r].resp.status = 200
        /\ req[r].body.repo.val # req[r].resp.repo

\* the zero-based rank of an existing owner directory
OwnerRank(ds, owner) ==
    Cardinality({o \in iterdir(ds, DEPLOY_ROOT) : StrLess(o, owner)})

\* C5: on a fixed snapshot every port of an owner lies in base+1 .. base+1000
\* with base = 2000 + 1000 * ownerIndex, and the ports of two distinct owners
\* never coincide, however many repositories an owner has.
C5_PortRangePartition ==
    /\ \A p \in allocated :
          LET base == 2000 + 1000 * OwnerRank(dirs, p.owner)
          IN  p.port \in (base + 1)..(base + 1000)
    /\ \A p, q \in allocated : p.owner # q.owner => p.port # q.port

\* C6: a request for a repository that is new under an owner that already
\* exists gets, in its descriptor, the port 2000 + 1000 * ownerRank +
\* (repositories under that owner before the request) + 1.
C6_NewRepositoryPort ==
    \A r \in Req :
        LET parts == split(req[r].full_repo)
            owner == parts[1]
            repo_name == parts[2]
        IN  (/\ req[r].wrote
             /\ owner \in iterdir(req[r].pre, DEPLOY_ROOT)
             /\ repo_name \notin iterdir(req[r].pre, <<owner>>)) =>
                req[r].written.port =
                    2000 + 1000 * OwnerRank(req[r].pre, owner)
                         + Cardinality(iterdir(req[r].pre, <<owner>>)) + 1

\* the request follows one with the same repo and tag that wrote its
\* descriptor, and has written its own
RepeatsPrevious(r) ==
    /\ req[r].wrote
    /\ prev.valid
    /\ prev.wrote
    /\ prev.full_repo = req[r].full_repo
    /\ prev.tag = req[r].tag

\* C7: of two consecutive requests with the same repo and tag the second
\* leaves on disk exactly the descriptor the first one left (same image,
\* same port), also when the first one created the directories.
C7_DescriptorIdempotence ==
    \A r \in Req :
        RepeatsPrevious(r) =>
            /\ req[r].written = prev.written
            /\ compose[repo_path(req[r].full_repo)] = prev.written

C7_Witness ==
    \E r \in Req :
        /\ RepeatsPrevious(r)
        /\ prev.created
        /\ Cardinality(dirs) > 3

\* C8: a timeout of pull or up is answered 500 "Deployment timeout" without
\* stdout or stderr, an answer no other failure of the executor gets, and
\* after a pull timeout up is never invoked.
C8_TimeoutIsDistinct ==
    \A r \in Req :
        LET timedOut == \/ req[r].pull.kind = "TimeoutExpired"
                        \/ req[r].up.kind = "TimeoutExpired"
        IN  /\ timedOut =>
                /\ Responded(r)
                /\ req[r].resp.status = 500
                /\ req[r].resp.error = "Deployment timeout"
                /\ req[r].resp.keys = {"error"}
            /\ req[r].pull.kind = "TimeoutExpired" => req[r].up = NoRun
            /\ (Responded(r) /\ req[r].pull # NoRun /\ ~timedOut) =>
                req[r].resp.error # "Deployment timeout"
            /\ (Responded(r) /\ "OSError" \in {req[r].pull.kind, req[r].up.kind}) =>
                req[r].resp.error \notin {"Pull failed", "Deploy failed"}

C8_Witness ==
    \E r \in Req :
        /\ Responded(r)
        /\ req[r].pull.returncode = 0
        /\ req[r].pull.kind = "exit"
        /\ req[r].up.kind = "TimeoutExpired"

\* only alphanumerics, "-", "_" and "."
IdentityPart(s) ==
    /\ s # <<>>
    /\ \A i \in 1..Len(s) : isalnum(s[i]) \/ s[i] \in {"-", "_", "."}

\* C9: a request that gets as far as creating its directory has an owner and
\* a name that are non-empty and made of alphanumerics, "-", "_", ".", and
\* its descriptor lies two levels below DEPLOY_ROOT.
C9_IdentityGrammar ==
    \A r \in Req :
        req[r].mkdirDone =>
            LET parts == split(req[r].full_repo)
            IN  /\ IdentityPart(parts[1])
                /\ IdentityPart(parts[2])
                /\ Len(repo_path(req[r].full_repo)) = 2
                /\ repo_path(req[r].full_repo) = <<parts[1], parts[2]>>

\* the signature was accepted and the payload is an object whose repo is a
\* string or missing
SignedObject(r) ==
    /\ req[r].pc \notin {"Idle", "Received", "SignatureChecked"}
    /\ req[r].resp.status # 403
    /\ req[r].resp.kind # "unhandled"
    /\ req[r].body.kind = "object"
    /\ req[r].body.repo.type # "number"

\* the repo grammar: exactly one "/", no disallowed character
WellFormedRepo(s) ==
    /\ count(s, "/") = 1
    /\ \A i \in 1..Len(s) : isalnum(s[i]) \/ s[i] \in {"-", "_", ".", "/"}

Rejected400(r, reason) ==
    /\ Responded(r)
    /\ req[r].resp.status = 400
    /\ req[r].resp.error = reason
    /\ NoSideEffects(r)

\* C10 as stated: a signed request whose repo does not hold exactly one "/"
\* or holds a disallowed character is answered 400 "Invalid repo format",
\* one whose tag is missing or blank 400 "Tag is required"; neither creates
\* a directory, writes a descriptor or invokes the tool.
C10_ValidationFailuresRaw ==
    \A r \in Req :
        SignedObject(r) =>
            /\ ~WellFormedRepo(req[r].body.repo.val) =>
                  Rejected400(r, "Invalid repo format")
            /\ (WellFormedRepo(req[r].body.repo.val)
                /\ strip(req[r].body.tag.val) = <<>>) =>
                  Rejected400(r, "Tag is required")

\* C10 (amended): the repo is judged after its surrounding whitespace is
\* stripped.
C10_ValidationFailuresStripped ==
    \A r \in Req :
        SignedObject(r) =>
            /\ ~WellFormedRepo(strip(req[r].body.repo.val)) =>
                  Rejected400(r, "Invalid repo format")
            /\ (WellFormedRepo(strip(req[r].body.repo.val))
                /\ strip(req[r].body.tag.val) = <<>>) =>
                  Rejected400(r, "Tag is required")

C10_Witness ==
    \E r \in Req :
        /\ SignedObject(r)
        /\ count(req[r].body.repo.val, "/") = 2
        /\ Rejected400(r, "Invalid repo format")

\* the value of a character in the standard base64 alphabet
B64Value(c) ==
    IF c \in Digits THEN Ord(c) + 4
    ELSE IF c \in Letters THEN Ord(c) - 71
    ELSE 63

\* unpadded standard base64: groups of four characters of the alphabet
B64Decodable(s) ==
    /\ Len(s) % 4 = 0
    /\ \A i \in 1..Len(s) : s[i] \in Digits \cup Letters \cup {"/"}

\* the bytes a decodable string stands for
RECURSIVE B64Decode(_)
B64Decode(s) ==
    IF s = <<>> THEN <<>>
    ELSE LET n == B64Value(s[1]) * 262144 + B64Value(s[2]) * 4096
                  + B64Value(s[3]) * 64 + B64Value(s[4])
         IN  <<n \div 65536, (n \div 256) % 256, n % 256>>
             \o B64Decode(SubSeq(s, 5, Len(s)))

\* the request passed validation and carries a compose_b64 key
CarriesDescriptor(r) ==
    /\ req[r].wrote
    /\ req[r].body.compose_b64.type = "str"

\* C11: the descriptor is the rendered template exactly when the request has
\* no compose_b64; a request with a decodable compose_b64 leaves the decoded
\* bytes, verbatim, at the repository's descriptor path.
C11_DescriptorPolicy ==
    \A r \in Req :
        req[r].wrote =>
            /\ (req[r].written.mode = "supplied") <=> CarriesDescriptor(r)
            /\ (CarriesDescriptor(r) /\ B64Decodable(req[r].body.compose_b64.val)) =>
                  req[r].written.raw = B64Decode(req[r].body.compose_b64.val)

\* C12: a signed, otherwise valid request whose compose_b64 is no base64 text
\* is answered 400 "Invalid compose_b64" and neither writes a descriptor nor
\* runs pull or up.
C12_UndecodableDescriptorRejected ==
    \A r \in Req :
        (/\ SignedObject(r)
         /\ WellFormedRepo(strip(req[r].body.repo.val))
         /\ strip(req[r].body.tag.val) # <<>>
         /\ req[r].body.compose_b64.type = "str"
         /\ ~B64Decodable(req[r].body.compose_b64.val)) =>
            /\ Responded(r)
            /\ req[r].resp.status = 400
            /\ req[r].resp.error = "Invalid compose_b64"
            /\ ~req[r].wrote
            /\ req[r].pull = NoRun
            /\ req[r].up = NoRun

\* C13: with no secret configured verify_signature is false for every body
\* and every presented signature, every request is answered 403, and nothing
\* is ever created, written or run.
C13_NoSecretRejectsAll ==
    WEBHOOK_SECRET = "" =>
        /\ dirs = {DEPLOY_ROOT}
        /\ compose = <<>>
        /\ \A r \in Req :
              /\ req[r].pc # "Idle" =>
                    verify_signature(WEBHOOK_SECRET, req[r].body, req[r].sig) = "False"
              /\ req[r].pc \in {"Idle", "Received", "Responded"}
              /\ Responded(r) => (req[r].resp.status = 403 /\ NoSideEffects(r))

C13_Witness ==
    \E r \in Req :
        /\ WEBHOOK_SECRET = ""
        /\ Responded(r)
        /\ req[r].sig = hexdigest("", req[r].body)
        /\ req[r].body.kind = "object"

\* C14: verify_signature never raises: for a presented signature that is
\* missing, empty, a wrong digest or any other header text it returns false,
\* and the request is answered 403, never 500.
C14_VerificationIsTotal ==
    \A r \in Req :
        /\ req[r].pc # "Idle" =>
              verify_signature(WEBHOOK_SECRET, req[r].body, req[r].sig)
                  \in {"True", "False"}
        /\ (Responded(r) /\ req[r].steps = <<"signature">>) =>
              (req[r].resp.status = 403 /\ req[r].resp.kind = "abort")

\* the reasons the interface documents for a 400
DocumentedReasons ==
    {"Empty payload", "Invalid repo format", "Tag is required", "Invalid compose_b64"}

\* C15: every 400 carries a documented reason, and a signed request whose
\* JSON payload is empty is answered 400 "Empty payload".
C15_DocumentedReasons ==
    \A r \in Req :
        /\ (Responded(r) /\ req[r].resp.status = 400) =>
              req[r].resp.error \in DocumentedReasons
        /\ (Responded(r) /\ req[r].body.kind = "empty"
             /\ req[r].steps = <<"signature", "payload">>) =>
              (req[r].resp.status = 400 /\ req[r].resp.error = "Empty payload")

\* the port get_port_for_repo returns now for the repository of a descriptor
CurrentPort(content) ==
    LET parts == split(content.image[1])
    IN  get_port_for_repo(dirs, parts[1], parts[2])

\* C16: as long as every new owner sorts after the existing owners and every
\* new repository after the existing repositories of its owner, the port
\* get_port_for_repo returns for a deployed repository stays the port in its
\* descriptor.
C16_AppendOnlyStability ==
    appendOnly => \A p \in DOMAIN compose : CurrentPort(compose[p]) = compose[p].port

Pipeline == <<"signature", "payload", "mkdir", "descriptor", "pull", "up", "respond">>

\* the steps of a request so far are an initial part of the pipeline
InOrder(r) ==
    /\ Len(req[r].steps) <= Len(Pipeline)
    /\ \A i \in 1..Len(req[r].steps) : req[r].steps[i] = Pipeline[i]

\* a step that failed is the last step of its request
StopsAtFailure(r) ==
    LET st == req[r].steps
        ok(run) == run.kind = "exit" /\ run.returncode = 0
    IN  /\ (st # <<>> /\ verify_signature(WEBHOOK_SECRET, req[r].body, req[r].sig) # "True")
              => st = <<"signature">>
        /\ (Len(st) >= 2 /\ ~(/\ req[r].body.kind = "object"
                              /\ req[r].body.repo.type = "str"
                              /\ WellFormedRepo(strip(req[r].body.repo.val))
                              /\ strip(req[r].body.tag.val) # <<>>))
              => Len(st) = 2
        /\ (req[r].pull # NoRun /\ ~ok(req[r].pull)) => (Len(st) = 5 /\ req[r].up = NoRun)
        /\ (req[r].up # NoRun /\ ~ok(req[r].up)) => Len(st) = 6
        /\ (Responded(r) /\ req[r].resp.status # 200) => st[Len(st)] # "respond"

\* one answer, given when the request is over and not before
OneResponse(r) ==
    /\ req[r].nresp = (IF Responded(r) THEN 1 ELSE 0)
    /\ Responded(r) <=> req[r].resp # NoResp

\* C17: a request goes through signature check, payload validation, mkdir,
\* descriptor write, pull and up in that order, stops at the first step that
\* fails, answers exactly once, and every received request is answered.
C17_RequestStateMachine ==
    /\ [](\A r \in Req : InOrder(r) /\ StopsAtFailure(r) /\ OneResponse(r))
    /\ \A r \in Req : (req[r].pc = "Received") ~> Responded(r)

C17_Witness ==
    \E r \in Req :
        /\ Responded(r)
        /\ req[r].steps = <<"signature", "payload", "mkdir", "descriptor", "pull">>
        /\ req[r].resp.error = "Pull failed"
        /\ \E o \in Req \ {r} : req[o].pc = "PullDone"

\* C18: nothing holds a request back while another works on the same
\* repository: a request that has made its directory can always write the
\* descriptor, and one that has written can always run pull and then up.
C18_NoMutualExclusion ==
    \A r \in Req :
        /\ req[r].pc = "DirectoryEnsured" => ENABLED EnsureComposeFile(r)
        /\ req[r].pc = "DescriptorReady" => ENABLED Pull(r)
        /\ req[r].pc = "PullDone" => ENABLED Up(r)

\* a request answered 200 for its tag after pull and up both ran on a
\* descriptor of its repository that names another tag
C18_Witness ==
    \E r \in Req :
        /\ Responded(r)
        /\ req[r].resp.status = 200
        /\ Len(req[r].ranOn) = 2
        /\ \A i \in 1..2 :
              /\ req[r].ranOn[i].on.image[1] = req[r].full_repo
              /\ req[r].ranOn[i].on.image[2] # req[r].tag
        /\ req[r].written.image[2] = req[r].tag

\* C19: the port of a 200 answer is the external port the same request wrote
\* into its descriptor, whatever other requests do meanwhile.
C19_ReportedPortIsWrittenPort ==
    \A r \in Req :
        (Responded(r) /\ req[r].resp.status = 200) =>
            req[r].resp.port = req[r].written.port

\* the request got as far as the pull and did not answer 200
FailedInExecutor(r) ==
    /\ Responded(r)
    /\ req[r].resp.status # 200
    /\ Len(req[r].steps) >= 5

\* the step in which a request ends in a failure of the pull or the up
EndsInFailure(r) ==
    /\ req[r].pc \in {"DescriptorReady", "PullDone"}
    /\ req'[r].pc = "Responded"
    /\ req'[r].resp.status # 200

\* C20: when a request ends in a pull failure, an up failure, a timeout or a
\* launch error, the descriptor of its repository names that request's tag
\* and the directory of the repository is still there.
C20_NoRollback ==
    [][\A r \in Req :
          EndsInFailure(r) =>
              LET path == repo_path(req[r].full_repo)
              IN  /\ path \in dirs'
                  /\ path \in DOMAIN compose'
                  /\ compose'[path].image = <<req[r].full_repo, req[r].tag>>]_vars

\* C20, amended: when a request has ended in such a failure, the descriptor
\* and the directory are still there, and the descriptor is the one the
\* failed request wrote unless another request of the same repository wrote
\* after it.
C20_NoRollbackUnlessOverwritten ==
    \A r \in Req :
        FailedInExecutor(r) =>
            LET path == repo_path(req[r].full_repo)
            IN  /\ path \in dirs
                /\ path \in DOMAIN compose
                /\ compose[path].image[1] = req[r].full_repo
                /\ ~req[r].overwritten =>
                      /\ compose[path] = req[r].written
                      /\ compose[path].image[2] = req[r].tag

C20_Witness ==
    \E r \in Req : \E o \in Req \ {r} :
        /\ FailedInExecutor(r)
        /\ req[r].up.kind = "OSError"
        /\ ~req[r].overwritten
        /\ req[o].pc = "Responded"
        /\ req[o].resp.status = 200
        /\ req[o].full_repo = req[r].full_repo
        /\ req[o].tag # req[r].tag
====
